---------------------------- MODULE Spec2Model ----------------------------
(***************************************************************************)
(* The customer dashboard of src/streamlit-app.py: a Streamlit script that *)
(* synthesizes a customer table once (st.cache_data), filters it by the    *)
(* sidebar widgets and aggregates the filtered view.  Streamlit reruns the *)
(* whole script, top to bottom, on every widget change.                    *)
(*                                                                         *)
(* A DataFrame is [columns |-> <<names>>, rows |-> <<row, ...>>], a row a  *)
(* function from column name to value.  A float is [nan, num, den]: NaN,   *)
(* or the rational num/den.                                                *)
(***************************************************************************)
EXTENDS Integers, Sequences, FiniteSets, TLC

VARIABLES
    cache,             \* st.cache_data's store of simulate_dataset: key num_rows -> DataFrame
    synth_log,         \* history: the DataFrames the body of simulate_dataset has built
    age_range,         \* widget: the age slider's (low, high)
    selected_city,     \* widget: the city selectbox
    product_category,  \* widget: the product category selectbox
    x_axis,            \* widget: explorer X axis
    y_axis,            \* widget: explorer Y axis
    color_by,          \* widget: explorer colour column
    df,                \* script: the dataset of this run (line 27)
    filtered_df,       \* script: the filtered view (lines 53-59, 155)
    n_records,         \* script: len(filtered_df) as written at line 64
    city_counts,       \* script: line 84
    metrics,           \* script: the six st.metric values (lines 131-140)
    corr,              \* script: line 145
    age_product_data,  \* script: line 160
    fig_explorer,      \* script: the points of the explorer chart (lines 184-187)
    error,             \* the exception that ended the run, or "none"
    prev_narrow,       \* history: the previous run's view left out some record of the dataset
    pc,                \* script position: "start", "filtered" (line 64), "done" (line 193)
    call,              \* function harness: the call made
    ret                \* function harness: its outcome

vars == <<cache, synth_log, age_range, selected_city, product_category, x_axis,
          y_axis, color_by, df, filtered_df, n_records, city_counts, metrics, corr,
          age_product_data, fig_explorer, error, prev_narrow, pc, call, ret>>

widgets == <<age_range, selected_city, product_category, x_axis, y_axis, color_by>>

outputs == <<city_counts, metrics, corr, age_product_data, fig_explorer>>

harness == <<call, ret>>

----------------------------------------------------------------------------
(* Bounds of the model.                                                    *)

\* The rows of the dataset (the code's default num_rows is 1000).
NumRows == 2

\* The harness calls simulate_dataset with num_rows in -MaxNeg .. NumRows.
MaxNeg == 1

\* The harness cuts Series of 1 .. MaxSeries ages.
MaxSeries == 1

\* A sample of the joint outcomes of the five random draws of one row.  The
\* draws outside the generators' ranges are in the sample so that the
\* generators, not the sample, decide what a row can hold.
DrawSample ==
    { [Age |-> 18, Income |-> 52000, PurchaseAmount |-> 120, City |-> "New York", ProductCategory |-> "Electronics"],
      [Age |-> 25, Income |-> -1200, PurchaseAmount |-> 10,  City |-> "London",   ProductCategory |-> "Books"],
      [Age |-> 45, Income |-> 75000, PurchaseAmount |-> 499, City |-> "Tokyo",    ProductCategory |-> "Electronics"],
      [Age |-> 60, Income |-> 50000, PurchaseAmount |-> 300, City |-> "New York", ProductCategory |-> "Clothing"],
      [Age |-> 69, Income |-> 31000, PurchaseAmount |-> 120, City |-> "London",   ProductCategory |-> "Electronics"],
      [Age |-> 17, Income |-> 50000, PurchaseAmount |-> 100, City |-> "Paris",    ProductCategory |-> "Home"],
      [Age |-> 70, Income |-> 50000, PurchaseAmount |-> 100, City |-> "Sydney",   ProductCategory |-> "Food"],
      [Age |-> 30, Income |-> 50000, PurchaseAmount |-> 500, City |-> "Paris",    ProductCategory |-> "Food"],
      [Age |-> 30, Income |-> 50000, PurchaseAmount |-> 9,   City |-> "Sydney",   ProductCategory |-> "Home"],
      [Age |-> 30, Income |-> 50000, PurchaseAmount |-> 100, City |-> "Berlin",   ProductCategory |-> "Home"],
      [Age |-> 30, Income |-> 50000, PurchaseAmount |-> 100, City |-> "Paris",    ProductCategory |-> "Toys"] }

\* The slider settings the user moves between.
SliderSample == { <<20, 60>>, <<18, 70>>, <<25, 45>>, <<30, 40>>, <<60, 25>>, <<17, 71>> }

\* The explorer settings the user moves between.
ExplorerSample ==
    { [x |-> "CustomerID", y |-> "PurchaseAmount", color |-> "City"],
      [x |-> "Age",        y |-> "Income",         color |-> "None"],
      [x |-> "AgeGroup",   y |-> "Income",         color |-> "City"] }

----------------------------------------------------------------------------
(* Values.                                                                 *)

Range(s) == { s[i] : i \in DOMAIN s }

\* A script variable not assigned yet in this run.
Unset == [unset |-> TRUE]

NaN == [nan |-> TRUE, num |-> 0, den |-> 0]

Float(n, d) == [nan |-> FALSE, num |-> n, den |-> d]

\* A missing categorical value (pandas NaN in a Categorical).
NaNLabel == "NaN"

DataFrame(cols, rws) == [columns |-> cols, rows |-> rws]

\* frame[c]: the column as a Series.
Column(frame, c) == [i \in 1..Len(frame.rows) |-> frame.rows[i][c]]

RECURSIVE MaskRows(_, _)
MaskRows(rws, mask) ==
    IF rws = << >> THEN << >>
    ELSE (IF Head(mask) THEN <<Head(rws)>> ELSE << >>) \o MaskRows(Tail(rws), Tail(mask))

\* Boolean indexing that returns the kept rows last to first.
BoolIndexReversed(frame, mask) ==
    LET kept == MaskRows(frame.rows, mask)
    IN  DataFrame(frame.columns, [i \in 1..Len(kept) |-> kept[Len(kept) + 1 - i]])

\* frame[mask]: a new DataFrame (boolean indexing copies) of the rows the
\* mask keeps, in the frame's order, with the frame's columns.
BoolIndex(frame, mask) == DataFrame(frame.columns, MaskRows(frame.rows, mask))

\* frame[c] = series: the column is replaced, or appended when new.
SetColumn(frame, c, series) ==
    DataFrame(IF c \in Range(frame.columns) THEN frame.columns ELSE Append(frame.columns, c),
              [i \in 1..Len(frame.rows) |->
                  [k \in (DOMAIN frame.rows[i]) \cup {c} |->
                      IF k = c THEN series[i] ELSE frame.rows[i][k]]])


----------------------------------------------------------------------------
(* The dataset synthesizer, lines 13-24.                                   *)

\* A generator that can return its upper bound.
randint_inclusive(low, high) == low..high

\* np.random.randint(low, high): low inclusive, high exclusive.
randint(low, high) == low..(high - 1)

\* np.random.uniform(low, high): a float of [low, high), here its integers.
uniform(low, high) == low..(high - 1)

\* np.random.normal(loc, scale): any float, negative ones too.
normal(loc, scale) == Int

\* random.choice(seq)
choice(seq) == Range(seq)

\* The list of line 21.
cities == <<"New York", "London", "Tokyo", "Paris", "Sydney">>

\* The list of line 22.
categories == <<"Electronics", "Clothing", "Books", "Home", "Food">>

\* The keys of `data`, in order: the DataFrame's columns.
data_columns == <<"CustomerID", "Age", "Income", "PurchaseAmount", "City", "ProductCategory">>

\* What one row's draws (lines 18-22) can be, within the sample.
Draws ==
    { d \in DrawSample :
        /\ d.Age \in randint(18, 70)
        /\ d.Income \in normal(50000, 15000)
        /\ d.PurchaseAmount \in uniform(10, 500)
        /\ d.City \in choice(cities)
        /\ d.ProductCategory \in choice(categories) }

\* Row i of `data`: CustomerID is range(1, num_rows + 1)[i - 1].
DataRow(i, d) ==
    [CustomerID |-> i, Age |-> d.Age, Income |-> d.Income,
     PurchaseAmount |-> d.PurchaseAmount, City |-> d.City,
     ProductCategory |-> d.ProductCategory]

\* The outcomes of the body of simulate_dataset(num_rows).  A negative
\* num_rows makes np.random.randint(18, 70, num_rows) raise ValueError
\* (negative dimensions); 0 builds every column empty and returns the
\* empty DataFrame.
simulate_dataset(num_rows) ==
    IF num_rows < 0
    THEN { [status |-> "raised", value |-> "ValueError"] }
    ELSE { [status |-> "returned",
            value  |-> DataFrame(data_columns, [i \in 1..num_rows |-> DataRow(i, draws[i])])] :
           draws \in [1..num_rows -> Draws] }

\* A decorator that forgets: the body runs on every call.
cache_data_never_hits(c, num_rows) ==
    { [status |-> o.status, value |-> o.value,
       cache  |-> IF o.status = "returned" THEN (num_rows :> o.value) @@ c ELSE c,
       built  |-> IF o.status = "returned" THEN <<o.value>> ELSE << >>] :
      o \in simulate_dataset(num_rows) }

\* @st.cache_data over simulate_dataset (line 14): a call whose argument is
\* in the store returns (a copy of) the stored value and does not run the
\* body; any other call runs the body and stores what it returns.
cache_data(c, num_rows) ==
    IF num_rows \in DOMAIN c
    THEN { [status |-> "returned", value |-> c[num_rows], cache |-> c, built |-> << >>] }
    ELSE { [status |-> o.status, value |-> o.value,
            cache  |-> IF o.status = "returned" THEN (num_rows :> o.value) @@ c ELSE c,
            built  |-> IF o.status = "returned" THEN <<o.value>> ELSE << >>] :
           o \in simulate_dataset(num_rows) }

----------------------------------------------------------------------------
(* The widgets, lines 36-50 and 178-180.                                   *)

min_value == 18

max_value == 70

\* What st.sidebar.slider can return for a range slider: low <= high,
\* both within min_value .. max_value.
SliderValues ==
    { r \in SliderSample :
        /\ r[1] \in min_value..max_value
        /\ r[2] \in min_value..max_value
        /\ r[1] <= r[2] }

city_options == <<"All", "New York", "London", "Tokyo", "Paris", "Sydney">>

product_options == <<"All", "Electronics", "Clothing", "Books", "Home", "Food">>

\* The explorer selectboxes offer df.columns (x, y) and 'None' + df.columns.
ExplorerValues ==
    { e \in ExplorerSample :
        /\ e.x \in Range(data_columns)
        /\ e.y \in Range(data_columns)
        /\ e.color \in {"None"} \cup Range(data_columns) }

----------------------------------------------------------------------------
(* The filter stage, lines 52-59.                                          *)

\* The age mask with the upper bound exclusive.
AgeMaskExclusive(frame, range) ==
    [i \in 1..Len(frame.rows) |->
        frame.rows[i].Age >= range[1] /\ frame.rows[i].Age < range[2]]

\* (df['Age'] >= age_range[0]) & (df['Age'] <= age_range[1])
AgeMask(frame, range) ==
    [i \in 1..Len(frame.rows) |->
        frame.rows[i].Age >= range[1] /\ frame.rows[i].Age <= range[2]]

\* frame[c] == v
EqMask(frame, c, v) == [i \in 1..Len(frame.rows) |-> frame.rows[i][c] = v]

\* Lines 53-59: the age filter, then the city filter unless "All", then
\* the category filter unless "All".
filter_stage(frame, range, city, category) ==
    LET by_age  == BoolIndex(frame, AgeMask(frame, range))
        by_city == IF city # "All"
                   THEN BoolIndex(by_age, EqMask(by_age, "City", city))
                   ELSE by_age
    IN  IF category # "All"
        THEN BoolIndex(by_city, EqMask(by_city, "ProductCategory", category))
        ELSE by_city

----------------------------------------------------------------------------
(* The aggregation stage, lines 66-189.                                    *)

RECURSIVE SumSeq(_)
SumSeq(s) == IF s = << >> THEN 0 ELSE Head(s) + SumSeq(Tail(s))

RECURSIVE MaxSeq(_)
MaxSeq(s) ==
    IF Len(s) = 1 THEN Head(s)
    ELSE LET m == MaxSeq(Tail(s)) IN IF Head(s) >= m THEN Head(s) ELSE m

\* Series.mean(): NaN on the empty Series.
mean(series) == IF Len(series) = 0 THEN NaN ELSE Float(SumSeq(series), Len(series))

\* Series.sum(): 0 on the empty Series.
sum(series) == Float(SumSeq(series), 1)

\* Series.max(): NaN on the empty Series.
max(series) == IF Len(series) = 0 THEN NaN ELSE Float(MaxSeq(series), 1)

\* The distinct values of a Series in the order of their first appearance.
RECURSIVE Uniques(_)
Uniques(s) ==
    IF s = << >> THEN << >>
    ELSE LET front == Uniques(SubSeq(s, 1, Len(s) - 1))
             last  == s[Len(s)]
         IN  IF last \in Range(front) THEN front ELSE Append(front, last)

Count(s, v) == Cardinality({ i \in DOMAIN s : s[i] = v })

\* A stable sort by Count, largest first.
RECURSIVE SortByCount(_)
SortByCount(recs) ==
    IF recs = << >> THEN << >>
    ELSE LET sorted == SortByCount(SubSeq(recs, 1, Len(recs) - 1))
             last   == recs[Len(recs)]
             k      == Cardinality({ i \in DOMAIN sorted : sorted[i].Count >= last.Count })
         IN  SubSeq(sorted, 1, k) \o <<last>> \o SubSeq(sorted, k + 1, Len(sorted))

\* Series.value_counts(): one entry per value present, most frequent first
\* (equal counts in the order of first appearance).
value_counts(series) ==
    LET u == Uniques(series)
    IN  SortByCount([i \in 1..Len(u) |-> [City |-> u[i], Count |-> Count(series, u[i])]])

\* Line 140 without its emptiness test: .index[0] of an empty index.
most_common_city_unguarded(view) ==
    LET counts == value_counts(Column(view, "City"))
    IN  IF counts = << >>
        THEN [status |-> "raised", value |-> "IndexError"]
        ELSE [status |-> "returned", value |-> counts[1].City]

\* Line 140: value_counts().index[0] if not filtered_df.empty else "N/A".
most_common_city(view) ==
    IF view.rows # << >>
    THEN [status |-> "returned", value |-> value_counts(Column(view, "City"))[1].City]
    ELSE [status |-> "returned", value |-> "N/A"]

\* Lines 131-139: the five numeric metrics.
numeric_metrics(view) ==
    [average_age      |-> mean(Column(view, "Age")),
     average_income   |-> mean(Column(view, "Income")),
     average_purchase |-> mean(Column(view, "PurchaseAmount")),
     total_purchases  |-> sum(Column(view, "PurchaseAmount")),
     highest_purchase |-> max(Column(view, "PurchaseAmount"))]

\* select_dtypes(include=['float64', 'int64']) of the view (line 144): the
\* int64 and float64 columns of `data`.
numeric_columns == <<"CustomerID", "Age", "Income", "PurchaseAmount">>

IsConstant(series) == \A i, j \in DOMAIN series : series[i] = series[j]

\* DataFrame.corr() (line 145), as far as whether each coefficient is
\* defined: NaN with fewer than two rows or a constant column.  The value of
\* a defined coefficient is not modelled.
corr_matrix(view) ==
    [a \in Range(numeric_columns), b \in Range(numeric_columns) |->
        [nan |-> \/ Len(view.rows) < 2
                 \/ IsConstant(Column(view, a))
                 \/ IsConstant(Column(view, b))]]

bins == <<18, 25, 35, 45, 55, 70>>

labels == <<"18-25", "26-35", "36-45", "46-55", "56-70">>

\* bins.searchsorted(v, side='left'): how many edges are below v.
searchsorted_left(edges, v) == Cardinality({ i \in DOMAIN edges : edges[i] < v })

\* bins.searchsorted(v, side='right'): how many edges are at or below v.
searchsorted_right(edges, v) == Cardinality({ i \in DOMAIN edges : edges[i] <= v })

\* pd.cut with right=False: buckets [edge, next edge).
cut_left_closed(series, edges, names) ==
    [i \in 1..Len(series) |->
        LET id == searchsorted_right(edges, series[i])
        IN  IF id = Len(edges) \/ id = 0 THEN NaNLabel ELSE names[id]]

\* pd.cut(series, bins=edges, labels=names) with the defaults right=True,
\* include_lowest=False (lines 155-157): the bucket is found by
\* searchsorted(side='left'); a value at or below the first edge, or above
\* the last, gets NaN.
cut(series, edges, names) ==
    [i \in 1..Len(series) |->
        LET id == searchsorted_left(edges, series[i])
        IN  IF id = Len(edges) \/ id = 0 THEN NaNLabel ELSE names[id]]

\* The category names in sorted order (groupby sorts its keys).
sorted_categories == <<"Books", "Clothing", "Electronics", "Food", "Home">>

RECURSIVE SelectIn(_, _)
SelectIn(s, keep) ==
    IF s = << >> THEN << >>
    ELSE (IF Head(s) \in keep THEN <<Head(s)>> ELSE << >>) \o SelectIn(Tail(s), keep)

\* Line 160: groupby(['AgeGroup', 'ProductCategory'])['PurchaseAmount']
\* .mean().reset_index().  AgeGroup is categorical, so (with observed=False,
\* the default before pandas 3) every bucket appears, crossed with the
\* categories present; a pair without rows has mean NaN, and rows without a
\* bucket are in no group.
groupby_mean(view) ==
    LET present == SelectIn(sorted_categories, Range(Column(view, "ProductCategory")))
        n       == Len(present)
    IN  [k \in 1..(Len(labels) * n) |->
            LET g == labels[((k - 1) \div n) + 1]
                c == present[((k - 1) % n) + 1]
                members == SelectIn(view.rows,
                               { r \in Range(view.rows) :
                                   r.AgeGroup = g /\ r.ProductCategory = c })
            IN  [AgeGroup |-> g, ProductCategory |-> c,
                 PurchaseAmount |-> mean([i \in 1..Len(members) |-> members[i].PurchaseAmount])]]

\* Lines 183-187: the points px.scatter plots from the view.
scatter(view, x, y, color) ==
    [i \in 1..Len(view.rows) |->
        [x |-> view.rows[i][x], y |-> view.rows[i][y],
         color |-> IF color = "None" THEN "None" ELSE view.rows[i][color]]]

----------------------------------------------------------------------------
(* The script and the session.                                             *)

\* Lines 27-64 of one run of the script with the widgets at the given
\* values, run on the previous run's view instead of the dataset.
ScriptOnPreviousView(range, city, category, x, y, color) ==
    \E o \in cache_data(cache, NumRows) :
        LET input == IF pc = "start" THEN o.value ELSE filtered_df
            view  == filter_stage(input, range, city, category)
        IN  /\ cache' = o.cache
            /\ synth_log' = synth_log \o o.built
            /\ age_range' = range
            /\ selected_city' = city
            /\ product_category' = category
            /\ x_axis' = x
            /\ y_axis' = y
            /\ color_by' = color
            /\ prev_narrow' = (pc # "start" /\ n_records < Len(df.rows))
            /\ df' = o.value
            /\ filtered_df' = view
            /\ n_records' = Len(view.rows)
            /\ error' = "none"
            /\ pc' = "filtered"
            /\ city_counts' = Unset
            /\ metrics' = Unset
            /\ corr' = Unset
            /\ age_product_data' = Unset
            /\ fig_explorer' = Unset
            /\ UNCHANGED harness

\* Lines 27-64 of one run of the script with the widgets at the given
\* values: the dataset from the cached synthesizer (the default num_rows),
\* the filters, the record count.  Every run starts with no script variable
\* set.
Script(range, city, category, x, y, color) ==
    \E o \in cache_data(cache, NumRows) :
        /\ cache' = o.cache
        /\ synth_log' = synth_log \o o.built
        /\ age_range' = range
        /\ selected_city' = city
        /\ product_category' = category
        /\ x_axis' = x
        /\ y_axis' = y
        /\ color_by' = color
        /\ prev_narrow' = (pc # "start" /\ n_records < Len(df.rows))
        /\ IF o.status = "raised"
           THEN /\ df' = Unset
                /\ filtered_df' = Unset
                /\ n_records' = 0
                /\ error' = o.value
                /\ pc' = "done"
           ELSE LET view == filter_stage(o.value, range, city, category)
                IN  /\ df' = o.value
                    /\ filtered_df' = view
                    /\ n_records' = Len(view.rows)
                    /\ error' = "none"
                    /\ pc' = "filtered"
        /\ city_counts' = Unset
        /\ metrics' = Unset
        /\ corr' = Unset
        /\ age_product_data' = Unset
        /\ fig_explorer' = Unset
        /\ UNCHANGED harness

\* The first run of the session: every widget at its default.
FirstRun ==
    /\ pc = "start"
    /\ Script(age_range, selected_city, product_category, x_axis, y_axis, color_by)

\* The user moves the age slider; the script reruns.
ChangeAgeRange ==
    /\ pc = "done"
    /\ \E r \in SliderValues \ {age_range} :
          Script(r, selected_city, product_category, x_axis, y_axis, color_by)

\* The user picks another city; the script reruns.
ChangeCity ==
    /\ pc = "done"
    /\ \E c \in Range(city_options) \ {selected_city} :
          Script(age_range, c, product_category, x_axis, y_axis, color_by)

\* The user picks another product category; the script reruns.
ChangeProductCategory ==
    /\ pc = "done"
    /\ \E p \in Range(product_options) \ {product_category} :
          Script(age_range, selected_city, p, x_axis, y_axis, color_by)

\* The user changes the explorer's selections; the script reruns.
ChangeExplorer ==
    /\ pc = "done"
    /\ \E e \in ExplorerValues \ {[x |-> x_axis, y |-> y_axis, color |-> color_by]} :
          Script(age_range, selected_city, product_category, e.x, e.y, e.color)

\* Lines 66-189 of the run: the city counts, the metrics, the correlation
\* matrix, the AgeGroup column assigned into filtered_df, the grouped means
\* and the explorer chart.  An exception ends the run where it is raised.
AggregateStage ==
    /\ pc = "filtered"
    /\ LET mcc == most_common_city(filtered_df)
           grouped == SetColumn(filtered_df, "AgeGroup",
                                cut(Column(filtered_df, "Age"), bins, labels))
       IN  /\ city_counts' = value_counts(Column(filtered_df, "City"))
           /\ IF mcc.status = "raised"
              THEN /\ metrics' = numeric_metrics(filtered_df)
                   /\ error' = mcc.value
                   /\ UNCHANGED <<filtered_df, corr, age_product_data, fig_explorer>>
              ELSE /\ metrics' = [c \in DOMAIN numeric_metrics(filtered_df) \cup {"most_common_city"} |->
                                     IF c = "most_common_city" THEN mcc.value
                                     ELSE numeric_metrics(filtered_df)[c]]
                   /\ error' = "none"
                   /\ corr' = corr_matrix(filtered_df)
                   /\ filtered_df' = grouped
                   /\ age_product_data' = groupby_mean(grouped)
                   /\ fig_explorer' = scatter(grouped, x_axis, y_axis, color_by)
    /\ pc' = "done"
    /\ UNCHANGED <<cache, synth_log, widgets, df, n_records, prev_narrow, harness>>

\* The session before its first run: the cache empty, the widgets at their
\* defaults (lines 41, 46, 50, 178-180).
InitSession ==
    /\ cache = << >>
    /\ synth_log = << >>
    /\ age_range = <<20, 60>>
    /\ selected_city = city_options[1]
    /\ product_category = product_options[1]
    /\ x_axis = data_columns[1]
    /\ y_axis = data_columns[4]
    /\ color_by = (<<"None">> \o data_columns)[6]
    /\ df = Unset
    /\ filtered_df = Unset
    /\ n_records = 0
    /\ city_counts = Unset
    /\ metrics = Unset
    /\ corr = Unset
    /\ age_product_data = Unset
    /\ fig_explorer = Unset
    /\ error = "none"
    /\ prev_narrow = FALSE
    /\ pc = "start"

NoCall == [fn |-> "none", arg |-> 0]

Pending == [status |-> "pending", value |-> 0]

Init == InitSession /\ call = NoCall /\ ret = Pending

Next ==
    \/ FirstRun
    \/ AggregateStage
    \/ ChangeAgeRange
    \/ ChangeCity
    \/ ChangeProductCategory
    \/ ChangeExplorer

Spec == Init /\ [][Next]_vars

----------------------------------------------------------------------------
(* The functions on their own: one call of simulate_dataset or of pd.cut   *)
(* with an argument drawn from a bounded set.                              *)

\* The ages a Series handed to pd.cut holds: the slider's range and one
\* value beyond each end.
CutAges == (min_value - 1)..(max_value + 1)

Calls ==
    { [fn |-> "simulate_dataset", arg |-> n] : n \in (0 - MaxNeg)..NumRows }
    \cup { [fn |-> "cut", arg |-> s] : s \in UNION { [1..n -> CutAges] : n \in 1..MaxSeries } }

FnInit == InitSession /\ call \in Calls /\ ret = Pending

\* simulate_dataset(call.arg), through its decorator.
CallSimulate ==
    /\ call.fn = "simulate_dataset"
    /\ ret.status = "pending"
    /\ \E o \in cache_data(cache, call.arg) :
          /\ ret' = [status |-> o.status, value |-> o.value]
          /\ cache' = o.cache
          /\ synth_log' = synth_log \o o.built
    /\ UNCHANGED <<widgets, df, filtered_df, n_records, outputs, error, prev_narrow, pc, call>>

\* pd.cut(call.arg, bins, labels).
CallCut ==
    /\ call.fn = "cut"
    /\ ret.status = "pending"
    /\ ret' = [status |-> "returned", value |-> cut(call.arg, bins, labels)]
    /\ UNCHANGED <<cache, synth_log, widgets, df, filtered_df, n_records, outputs,
                   error, prev_narrow, pc, call>>

FnNext == CallSimulate \/ CallCut

FnSpec == FnInit /\ [][FnNext]_vars

----------------------------------------------------------------------------
(* The claims.                                                             *)

\* The three predicates of the current FilterCriteria, on one record.
Satisfies(r) ==
    /\ age_range[1] <= r.Age
    /\ r.Age <= age_range[2]
    /\ (selected_city = "All" \/ r.City = selected_city)
    /\ (product_category = "All" \/ r.ProductCategory = product_category)

\* The records of the current dataset that satisfy the current criteria,
\* in the dataset's order.
MatchingRows == SelectSeq(df.rows, Satisfies)

\* C1: after the filter stage the FilteredView holds exactly the Dataset
\* records that satisfy all active predicates: each of its records is a
\* Dataset record with age_min <= Age <= age_max, the selected city unless
\* "All" and the selected category unless "All", and each Dataset record not
\* in it fails one of them.
C1_FilteredViewExact ==
    pc = "filtered" =>
        /\ \A r \in Range(filtered_df.rows) : r \in Range(df.rows) /\ Satisfies(r)
        /\ \A r \in Range(df.rows) : r \notin Range(filtered_df.rows) => ~Satisfies(r)

\* C1's case: both selections active, a record kept whose Age is the upper
\* bound itself, and a record left out.
C1_Witness ==
    /\ pc = "filtered"
    /\ selected_city # "All"
    /\ product_category # "All"
    /\ \E r \in Range(filtered_df.rows) : r.Age = age_range[2]
    /\ Len(filtered_df.rows) < Len(df.rows)

\* C2: after the age-bucket step every record of the FilteredView has
\* exactly one of the five bucket labels; none is left without a bucket.
C2_EveryRecordBucketed ==
    (pc = "done" /\ error = "none") =>
        \A r \in Range(filtered_df.rows) :
            Cardinality({ k \in DOMAIN labels : r.AgeGroup = labels[k] }) = 1

\* The edges between two buckets.
InteriorEdges == { k \in DOMAIN bins : 1 < k /\ k < Len(bins) }

\* C3 as stated: an age equal to an interior edge e gets the bucket that
\* starts at e, and 70 gets the last bucket.
C3_LowerEdgeInclusive ==
    (call.fn = "cut" /\ ret.status = "returned") =>
        \A i \in DOMAIN call.arg :
            /\ \A k \in InteriorEdges : call.arg[i] = bins[k] => ret.value[i] = labels[k]
            /\ call.arg[i] = bins[Len(bins)] => ret.value[i] = labels[Len(labels)]

\* C3 as amended: an age equal to an interior edge e gets the bucket that
\* ends at e, and 70 gets the last bucket: every bucket is closed on the
\* right.
C3_UpperEdgeInclusive ==
    (call.fn = "cut" /\ ret.status = "returned") =>
        \A i \in DOMAIN call.arg :
            /\ \A k \in InteriorEdges : call.arg[i] = bins[k] => ret.value[i] = labels[k - 1]
            /\ call.arg[i] = bins[Len(bins)] => ret.value[i] = labels[Len(labels)]

\* C3's case: pd.cut has bucketed an age that is an interior edge.
C3_Witness ==
    /\ call.fn = "cut"
    /\ ret.status = "returned"
    /\ \E i \in DOMAIN call.arg : \E k \in InteriorEdges : call.arg[i] = bins[k]

\* C4: no step after the filter stage changes the FilteredView or the
\* Dataset: from line 64 on, filtered_df keeps its rows, columns and values
\* and df is unchanged.
C4_AggregationLeavesViewUnchanged ==
    [][pc = "filtered" => (filtered_df' = filtered_df /\ df' = df)]_vars

\* C5: with an empty FilteredView the pass ends without an exception, the
\* record count is 0, the average age, average income, average purchase and
\* highest purchase are NaN and the most common city is "N/A".
C5_EmptyViewHandled ==
    (pc = "done" /\ filtered_df.rows = << >>) =>
        /\ error = "none"
        /\ n_records = 0
        /\ metrics.average_age = NaN
        /\ metrics.average_income = NaN
        /\ metrics.average_purchase = NaN
        /\ metrics.highest_purchase = NaN
        /\ metrics.most_common_city = "N/A"

\* C5's case: a pass over a non-empty dataset has ended with an empty view.
C5_Witness ==
    /\ pc = "done"
    /\ df.rows # << >>
    /\ filtered_df.rows = << >>

\* C6: simulate_dataset with num_rows <= 0 ends in an error, never in a
\* returned dataset.
C6_NonPositiveRejected ==
    (call.fn = "simulate_dataset" /\ call.arg <= 0 /\ ret.status # "pending") =>
        ret.status = "raised"

\* C7: in every run of the session the dataset is the one synthesized at the
\* first run: the synthesizer's body has run once, and df and the cache
\* entry are what it built then.
C7_DatasetSynthesizedOnce ==
    pc # "start" =>
        /\ Len(synth_log) = 1
        /\ df = synth_log[1]
        /\ DOMAIN cache = {NumRows}
        /\ cache[NumRows] = synth_log[1]

\* C7's case: a run has ended after the user changed the age range, the
\* city, the category and the explorer's selections.
C7_Witness ==
    /\ pc = "done"
    /\ age_range # <<20, 60>>
    /\ selected_city # "All"
    /\ product_category # "All"
    /\ x_axis # "CustomerID"

\* C8: the FilteredView is a subsequence of the Dataset: each of its records
\* is the Dataset record of that CustomerID, and CustomerIDs increase along
\* it (so no record is there twice).
C8_OrderPreserved ==
    pc = "filtered" =>
        /\ \A i \in DOMAIN filtered_df.rows :
              /\ filtered_df.rows[i].CustomerID \in DOMAIN df.rows
              /\ filtered_df.rows[i] = df.rows[filtered_df.rows[i].CustomerID]
        /\ \A i, j \in DOMAIN filtered_df.rows :
              i < j => filtered_df.rows[i].CustomerID < filtered_df.rows[j].CustomerID

\* C8's case: two records passed the filters.
C8_Witness ==
    /\ pc = "filtered"
    /\ Len(filtered_df.rows) >= 2

\* C9: simulate_dataset(num_rows) with num_rows > 0 returns num_rows
\* records with CustomerID 1..num_rows in order, each Age an integer with
\* 18 <= Age < 70, each City and ProductCategory one of the five listed.
C9_SynthesizedDatasetShape ==
    (call.fn = "simulate_dataset" /\ call.arg > 0 /\ ret.status # "pending") =>
        /\ ret.status = "returned"
        /\ Len(ret.value.rows) = call.arg
        /\ \A i \in DOMAIN ret.value.rows :
              LET r == ret.value.rows[i]
              IN  /\ r.CustomerID = i
                  /\ r.Age \in Int
                  /\ 18 <= r.Age /\ r.Age < 70
                  /\ r.City \in {"New York", "London", "Tokyo", "Paris", "Sydney"}
                  /\ r.ProductCategory \in {"Electronics", "Clothing", "Books", "Home", "Food"}

\* C9's case: the synthesizer has returned a dataset of several rows.
C9_Witness ==
    /\ call.fn = "simulate_dataset"
    /\ call.arg = NumRows
    /\ ret.status = "returned"
    /\ Len(ret.value.rows) >= 2

\* The view a pass over the current dataset and criteria shows at its end:
\* the matching records with their bucket.
FreshView ==
    LET view == DataFrame(data_columns, MatchingRows)
    IN  SetColumn(view, "AgeGroup", cut(Column(view, "Age"), bins, labels))

\* C10: what a finished pass shows depends only on the Dataset and the
\* criteria current at that pass: the FilteredView is the Dataset's matching
\* records, whatever the earlier runs showed, and every aggregate is the
\* aggregate of that view.
C10_StatelessRecomputation ==
    (pc = "done" /\ error = "none") =>
        /\ filtered_df = FreshView
        /\ n_records = Len(MatchingRows)
        /\ city_counts = value_counts(Column(FreshView, "City"))
        /\ \A m \in DOMAIN numeric_metrics(FreshView) :
              metrics[m] = numeric_metrics(FreshView)[m]
        /\ metrics.most_common_city = most_common_city(FreshView).value
        /\ corr = corr_matrix(FreshView)
        /\ age_product_data = groupby_mean(FreshView)
        /\ fig_explorer = scatter(FreshView, x_axis, y_axis, color_by)

\* C10's case: the run before this one showed a strict part of the dataset,
\* and this one shows all of it.
C10_Witness ==
    /\ pc = "done"
    /\ prev_narrow
    /\ Len(df.rows) >= 2
    /\ Len(filtered_df.rows) = Len(df.rows)

=============================================================================
